---- MODULE Spec2Model ----
(***************************************************************************)
(* A model of the cyber_miner assembler (backend/src/asm.rs): the line     *)
(* collector parse_code and the two-pass assembler `assemble`, which lays  *)
(* out instructions in the 256-byte BIOS image, records and patches label  *)
(* fixups, and fills the 256-byte data image.                              *)
(*                                                                         *)
(* Line nodes, opcodes and names are tuples whose first element is the     *)
(* variant name: <<"Op", <<"Jmp", name>>>>, <<"Label", name>>,             *)
(* <<"MemoryDeclaration", label, value>>, <<"EmptyLine">>.  A name is the  *)
(* String inside a LabelString.                                            *)
(***************************************************************************)
EXTENDS Integers, Sequences, FiniteSets, TLC

VARIABLES
    pad,                \* input: <<kind, n>>, the program starts with n filler lines
    code,               \* input: the lines of `code` iterated so far (line k is code[k+1])
    pc,                 \* position inside assemble
    result,             \* value returned by assemble ("None" while running)
    bios_init,          \* byte every cell of bios_memory held before the call
    data_init,          \* byte every cell of data_memory held before the call
    bios_memory,
    data_memory,
    label_locations,    \* name -> <<line, address>>
    memory_locations,   \* name -> <<line, address, value>>
    need_labels,        \* name -> sequence of offsets
    need_memory_labels, \* name -> sequence of offsets
    cur_offset,
    cur_data_offset,
    pending,            \* keys of the fixup map under iteration not yet visited
    source,             \* parse_code input: the lines of the text read so far
    lines,              \* parse_code: valid line nodes
    errors,             \* parse_code: CodeError entries <<line, error>>
    ppc,                \* position inside parse_code
    parsed,             \* value returned by parse_code
    arg,                \* <<function, input>>: the function called on its own and its input
    ret,                \* the value that call returned (<<"None">> before it)
    active,             \* two concurrent calls of assemble: the call that is running
    other               \* the locals and images of the call that is not running

vars == <<pad, code, pc, result, bios_init, data_init, bios_memory, data_memory,
          label_locations, memory_locations, need_labels, need_memory_labels,
          cur_offset, cur_data_offset, pending, source, lines, errors, ppc, parsed,
          arg, ret, active, other>>

asmVars == <<pad, code, pc, result, bios_init, data_init, bios_memory, data_memory,
             label_locations, memory_locations, need_labels, need_memory_labels,
             cur_offset, cur_data_offset, pending>>

parseVars == <<source, lines, errors, ppc, parsed>>

callVars == <<arg, ret>>

pairVars == <<active, other>>

----------------------------------------------------------------------------
(* Program constants *)

BIOS_MEM_SIZE == 256
DATA_MEM_SIZE == 256
U8_MAX == 255

OP_ADD == 0
OP_SUB == 1
OP_MUL == 2
OP_DIV == 3
OP_JMP == 4
OP_JMPC == 5
OP_MOVR == 6
OP_MOVIMM == 7
OP_MOVADDR == 8
OP_STACKGET == 9
OP_STACKSET == 10
OP_EXEC == 11
OP_RETURN == 12
OP_CMPCALLADDR == 13
OP_CMPCALLIMM == 14
OP_FORWARD == 15
OP_ROTATE == 16
OP_BREAK == 17
OP_BATTERY == 18
OP_INVENTORYGET == 19
OP_INVENTORYDROP == 20
OP_INVENTORYITEM == 21
OP_OUTPUT == 22
OP_NOOP == 23

\* length of the scratch array `op` in OpCode<u8>::read
OP_BUF_LEN == 3

----------------------------------------------------------------------------
(* Bounds of the model *)

\* lines of a program after its filler lines
MaxTail == 3
\* a program with filler instructions has at least BIOS_MEM_SIZE - MaxGap of them
MaxGap == 3
\* lines of a program after its filler declarations
MaxDataTail == 2
\* a program with filler declarations has at least DATA_MEM_SIZE - MaxDataGap of them
MaxDataGap == 1
\* lines of a source text given to parse_code
MaxSourceLines == 6
\* lines of the programs of two concurrent calls of assemble, taken together
MaxPairLines == 3
\* lines after the filler of a program whose instruction image is inspected
MaxFrameTail == 3
\* filler instructions of the long program whose instruction image is inspected
MaxFrameFill == 250
\* characters of a label body or operand token called on its own
MaxBodyLen == 3
\* characters of the leading token of a line called on its own
MaxWordLen == 2

----------------------------------------------------------------------------
(* Registers and the instruction encoder *)

Register == {"RGA", "RGB", "RGC", "RGD", "RET", "MEM"}

RegisterIntoU8(r) ==
    CASE r = "RGA" -> 0
      [] r = "RGB" -> 1
      [] r = "RGC" -> 2
      [] r = "RGD" -> 3
      [] r = "RET" -> 4
      [] r = "MEM" -> 5

None == <<>>

\* placeholder_labels that gives MovAddr the relative offset of the jumps
placeholder_labels_MovOffsetOne(op) ==
    CASE op[1] = "Jmp" -> << <<"Jmp", 0>>, <<TRUE, 1, op[2]>> >>
      [] op[1] = "JmpCondition" -> << <<"JmpCondition", 0>>, <<TRUE, 1, op[2]>> >>
      [] op[1] = "MovAddr" -> << <<"MovAddr", op[2], 0>>, <<FALSE, 1, op[3]>> >>
      [] op[1] = "CmpCallAddr" -> << <<"CmpCallAddr", 0>>, <<FALSE, 1, op[2]>> >>
      [] OTHER -> <<op, None>>

\* OpCode<LabelString>::placeholder_labels: <<OpCode<u8>, Option<(bool, u8, String)>>>
placeholder_labels(op) ==
    CASE op[1] = "Jmp" -> << <<"Jmp", 0>>, <<TRUE, 1, op[2]>> >>
      [] op[1] = "JmpCondition" -> << <<"JmpCondition", 0>>, <<TRUE, 1, op[2]>> >>
      [] op[1] = "MovAddr" -> << <<"MovAddr", op[2], 0>>, <<FALSE, 2, op[3]>> >>
      [] op[1] = "CmpCallAddr" -> << <<"CmpCallAddr", 0>>, <<FALSE, 1, op[2]>> >>
      [] OTHER -> <<op, None>>

\* the scratch array `op` and `len` computed by the match in OpCode<u8>::read
OpBytes(op) ==
    CASE op[1] = "Add" -> << <<OP_ADD, 0, 0>>, 1 >>
      [] op[1] = "Sub" -> << <<OP_SUB, 0, 0>>, 1 >>
      [] op[1] = "Mul" -> << <<OP_MUL, 0, 0>>, 1 >>
      [] op[1] = "Div" -> << <<OP_DIV, 0, 0>>, 1 >>
      [] op[1] = "Jmp" -> << <<OP_JMP, op[2], 0>>, 2 >>
      [] op[1] = "JmpCondition" -> << <<OP_JMPC, op[2], 0>>, 2 >>
      [] op[1] = "MovReg" -> << <<OP_MOVR, RegisterIntoU8(op[2]), RegisterIntoU8(op[3])>>, 3 >>
      [] op[1] = "MovImm" -> << <<OP_MOVIMM, RegisterIntoU8(op[2]), op[3]>>, 3 >>
      [] op[1] = "MovAddr" -> << <<OP_MOVADDR, RegisterIntoU8(op[2]), op[3]>>, 3 >>
      [] op[1] = "StackGet" -> << <<OP_STACKGET, 0, 0>>, 1 >>
      [] op[1] = "StackSet" -> << <<OP_STACKSET, 0, 0>>, 1 >>
      [] op[1] = "Exec" -> << <<OP_EXEC, 0, 0>>, 1 >>
      [] op[1] = "Return" -> << <<OP_RETURN, 0, 0>>, 1 >>
      [] op[1] = "CmpCallAddr" -> << <<OP_CMPCALLADDR, op[2], 0>>, 2 >>
      [] op[1] = "CmpCallImm" -> << <<OP_CMPCALLIMM, op[2], 0>>, 2 >>
      [] op[1] = "Forward" -> << <<OP_FORWARD, 0, 0>>, 1 >>
      [] op[1] = "Rotate" -> << <<OP_ROTATE, 0, 0>>, 1 >>
      [] op[1] = "Break" -> << <<OP_BREAK, 0, 0>>, 1 >>
      [] op[1] = "Battery" -> << <<OP_BATTERY, 0, 0>>, 1 >>
      [] op[1] = "InventoryGet" -> << <<OP_INVENTORYGET, 0, 0>>, 1 >>
      [] op[1] = "InventoryDrop" -> << <<OP_INVENTORYDROP, 0, 0>>, 1 >>
      [] op[1] = "InventoryItem" -> << <<OP_INVENTORYITEM, 0, 0>>, 1 >>
      [] op[1] = "Output" -> << <<OP_OUTPUT, 0, 0>>, 1 >>
      [] op[1] = "Noop" -> << <<OP_NOOP, 0, 0>>, 1 >>

\* a capacity test that accepts every buffer
ReadFits_Always(buf_len, len) == TRUE

\* The capacity test of OpCode<u8>::read on a buffer of buf_len bytes
ReadFits(buf_len, len) == buf_len >= OP_BUF_LEN

\* OpCode<u8>::read: <<"Ok", the bytes copied to buf[..len]>> or <<"Err">>
read(op, buf_len) ==
    LET b == OpBytes(op)
    IN  IF ReadFits(buf_len, b[2])
        THEN <<"Ok", SubSeq(b[1], 1, b[2])>>
        ELSE <<"Err">>

\* a copy of the whole three-byte buffer `op` instead of op[..len]
WriteBytes_WholeBuffer(mem, start, bytes) ==
    [i \in DOMAIN mem |->
        IF i >= start /\ i < start + Len(bytes) THEN bytes[i - start + 1]
        ELSE IF i >= start /\ i < start + OP_BUF_LEN THEN 0
        ELSE mem[i]]

\* buf[start .. start+Len(bytes)-1] overwritten with bytes
WriteBytes(mem, start, bytes) ==
    [i \in DOMAIN mem |->
        IF i >= start /\ i < start + Len(bytes) THEN bytes[i - start + 1] ELSE mem[i]]

----------------------------------------------------------------------------
(* HashMap helpers *)

HashMapGet(m, k) == IF k \in DOMAIN m THEN <<m[k]>> ELSE None

HashMapInsert(m, k, v) == [x \in DOMAIN m \cup {k} |-> IF x = k THEN v ELSE m[x]]

\* PushNeedLabel whose or_insert_with starts from an empty list
PushNeedLabel_Lost(m, name, off) ==
    IF name \in DOMAIN m
    THEN HashMapInsert(m, name, Append(m[name], off))
    ELSE HashMapInsert(m, name, <<>>)

\* need_labels.entry(name).and_modify(|v| v.push(off)).or_insert_with(|| vec![off])
PushNeedLabel(m, name, off) ==
    IF name \in DOMAIN m
    THEN HashMapInsert(m, name, Append(m[name], off))
    ELSE HashMapInsert(m, name, <<off>>)

\* need_memory_labels.entry(name).and_modify(|v| v.push(off)).or_insert_with(|| vec![])
PushNeedMemoryLabel(m, name, off) ==
    IF name \in DOMAIN m
    THEN HashMapInsert(m, name, Append(m[name], off))
    ELSE HashMapInsert(m, name, <<>>)

----------------------------------------------------------------------------
(* AssemblingError values *)

\* DuplicateLabel with the two line numbers exchanged
DuplicateLabel_Swapped(name, first_defined, redefined) ==
    [kind |-> "DuplicateLabel", name |-> name,
     first_defined |-> redefined, redefined |-> first_defined]

DuplicateLabel(name, first_defined, redefined) ==
    [kind |-> "DuplicateLabel", name |-> name,
     first_defined |-> first_defined, redefined |-> redefined]

\* DuplicateMemory that reports the current line as the first definition
DuplicateMemory_SameLine(name, first_defined, redefined) ==
    [kind |-> "DuplicateMemory", name |-> name,
     first_defined |-> redefined, redefined |-> redefined]

DuplicateMemory(name, first_defined, redefined) ==
    [kind |-> "DuplicateMemory", name |-> name,
     first_defined |-> first_defined, redefined |-> redefined]

MemoryOverflow == [kind |-> "MemoryOverflow"]
PointerOverflow == [kind |-> "PointerOverflow"]
InvalidLabel == [kind |-> "InvalidLabel"]
InvalidMemoryLabel == [kind |-> "InvalidMemoryLabel"]
Ok == [kind |-> "Ok"]
\* the thread unwinds: an arithmetic overflow check or an unwrap failed
Panic == [kind |-> "Panic"]
Running == [kind |-> "None"]

----------------------------------------------------------------------------
(* Strings: a &str is a TLA+ string, read through Len, SubSeq and \o *)

CharAt(s, i) == SubSeq(s, i, i)

starts_with(s, p) == Len(s) >= Len(p) /\ SubSeq(s, 1, Len(p)) = p
ends_with(s, p) == Len(s) >= Len(p) /\ SubSeq(s, Len(s) - Len(p) + 1, Len(s)) = p

RECURSIVE trim_start_matches(_, _)
trim_start_matches(s, c) ==
    IF starts_with(s, c) THEN trim_start_matches(SubSeq(s, 2, Len(s)), c) ELSE s

RECURSIVE trim_end_matches(_, _)
trim_end_matches(s, c) ==
    IF ends_with(s, c) THEN trim_end_matches(SubSeq(s, 1, Len(s) - 1), c) ELSE s

UpperCase == "ABCDEFGHIJKLMNOPQRSTUVWXYZ"
LowerCase == "abcdefghijklmnopqrstuvwxyz"

LowerChar(c) ==
    IF \E k \in 1..Len(UpperCase) : CharAt(UpperCase, k) = c
    THEN CharAt(LowerCase, CHOOSE k \in 1..Len(UpperCase) : CharAt(UpperCase, k) = c)
    ELSE c

RECURSIVE to_lowercase(_)
to_lowercase(s) ==
    IF s = "" THEN "" ELSE LowerChar(CharAt(s, 1)) \o to_lowercase(SubSeq(s, 2, Len(s)))

IsWhitespace(c) == c \in {" ", "\t"}

\* the tokens of s from position i on, `cur` being the token under construction
RECURSIVE SplitFrom(_, _, _)
SplitFrom(s, i, cur) ==
    IF i > Len(s) THEN (IF cur = "" THEN <<>> ELSE <<cur>>)
    ELSE IF IsWhitespace(CharAt(s, i))
         THEN (IF cur = "" THEN <<>> ELSE <<cur>>) \o SplitFrom(s, i + 1, "")
         ELSE SplitFrom(s, i + 1, cur \o CharAt(s, i))

\* s.trim().split_whitespace()
split_whitespace(s) == SplitFrom(s, 1, "")

DigitChars == "0123456789"
IsDigit(c) == \E d \in 1..10 : CharAt(DigitChars, d) = c
DigitValue(c) == (CHOOSE d \in 1..10 : CharAt(DigitChars, d) = c) - 1

\* the value of the digits s[i..], -1 on a non-digit or a value above u8::MAX
RECURSIVE DecimalFrom(_, _, _)
DecimalFrom(s, i, acc) ==
    IF i > Len(s) THEN acc
    ELSE IF ~IsDigit(CharAt(s, i)) THEN -1
    ELSE LET v == acc * 10 + DigitValue(CharAt(s, i))
         IN  IF v > U8_MAX THEN -1 ELSE DecimalFrom(s, i + 1, v)

\* u8::from_str: an optional `+`, then at least one decimal digit, at most 255
u8_from_str(s) ==
    LET digits == IF starts_with(s, "+") THEN SubSeq(s, 2, Len(s)) ELSE s
        v == DecimalFrom(digits, 1, 0)
    IN  IF digits = "" \/ v < 0 THEN <<"Err">> ELSE <<"Ok", v>>

\* Register::from_str
Register_from_str(s) ==
    LET l == to_lowercase(s)
    IN  CASE l = "%rga" -> <<"Ok", "RGA">>
          [] l = "%rgb" -> <<"Ok", "RGB">>
          [] l = "%rgc" -> <<"Ok", "RGC">>
          [] l = "%rgd" -> <<"Ok", "RGD">>
          [] l = "%ret" -> <<"Ok", "RET">>
          [] l = "%mem" -> <<"Ok", "MEM">>
          [] OTHER -> <<"Err", "InvalidRegister">>

\* LabelString::from_str without the to_lowercase() of the body
LabelString_from_str_KeepCase(s) ==
    IF starts_with(s, "$") \/ starts_with(s, "@")
    THEN LET label == trim_start_matches(trim_start_matches(s, "$"), "@")
         IN  IF u8_from_str(label)[1] = "Ok" THEN <<"Err", "NumericName">>
             ELSE IF Register_from_str("%" \o label)[1] = "Ok" THEN <<"Err", "RegisterName">>
             ELSE <<"Ok", label>>
    ELSE <<"Err", "InvalidPrefix">>

\* LabelString::from_str
LabelString_from_str(s) ==
    IF starts_with(s, "$") \/ starts_with(s, "@")
    THEN LET label == to_lowercase(trim_start_matches(trim_start_matches(s, "$"), "@"))
         IN  IF u8_from_str(label)[1] = "Ok" THEN <<"Err", "NumericName">>
             ELSE IF Register_from_str("%" \o label)[1] = "Ok" THEN <<"Err", "RegisterName">>
             ELSE <<"Ok", label>>
    ELSE <<"Err", "InvalidPrefix">>

\* tokens.next() after k tokens were taken: <<token>> or None
NextToken(tokens, k) == IF Len(tokens) > k THEN <<tokens[k + 1]>> ELSE <<>>

NoOperandMnemonics ==
    [add |-> "Add", sub |-> "Sub", mul |-> "Mul", div |-> "Div",
     stac_g |-> "StackGet", stac_s |-> "StackSet", exec |-> "Exec",
     return |-> "Return", fwd |-> "Forward", rot |-> "Rotate", brk |-> "Break",
     bttry |-> "Battery", inven |-> "InventoryGet", drop |-> "InventoryDrop",
     item |-> "InventoryItem", out |-> "Output", noop |-> "Noop"]

\* the "let" arm
FromStrLet(tokens) ==
    LET t1 == NextToken(tokens, 1)
        label == LabelString_from_str(to_lowercase(t1[1]))
        t2 == NextToken(tokens, 2)
        t3 == NextToken(tokens, 3)
        value == u8_from_str(IF t3 = <<>> THEN "0" ELSE t3[1])
    IN  IF t1 = <<>> THEN <<"Err", <<"LetMissingLabel">>>>
        ELSE IF label[1] = "Err" THEN <<"Err", <<"LetInvalidLabel", label[2]>>>>
        ELSE IF t2 = <<>> \/ t2[1] # "=" THEN <<"Err", <<"LetMissingEquals">>>>
        ELSE IF value[1] = "Err" THEN <<"Err", <<"LetInvalidValue">>>>
        ELSE <<"Ok", <<"MemoryDeclaration", label[2], value[2]>>>>

\* the "jmp" and "jmpc" arms
FromStrJmp(tokens, kind, missing, invalid) ==
    LET t1 == NextToken(tokens, 1)
        label == LabelString_from_str(to_lowercase(t1[1]))
    IN  IF t1 = <<>> THEN <<"Err", <<missing>>>>
        ELSE IF label[1] = "Err" THEN <<"Err", <<invalid, label[2]>>>>
        ELSE <<"Ok", <<"Op", <<kind, label[2]>>>>>>

\* the "mov" arm trying the label before the u8 literal and without the register
FromStrMov_LabelFirst(tokens) ==
    LET t1 == NextToken(tokens, 1)
        to == Register_from_str(t1[1])
        t2 == NextToken(tokens, 2)
        from_token == t2[1]
        imm == u8_from_str(from_token)
        from_label == LabelString_from_str(from_token)
    IN  IF t1 = <<>> THEN <<"Err", <<"MovMissingTo">>>>
        ELSE IF to[1] = "Err" THEN <<"Err", <<"MovInvalidToRegister", to[2]>>>>
        ELSE IF t2 = <<>> THEN <<"Err", <<"MovMissingFrom">>>>
        ELSE IF from_label[1] = "Ok"
             THEN <<"Ok", <<"Op", <<"MovAddr", to[2], from_label[2]>>>>>>
        ELSE IF imm[1] = "Ok" THEN <<"Ok", <<"Op", <<"MovImm", to[2], imm[2]>>>>>>
        ELSE <<"Err", <<"MovInvalidFrom", from_label[2]>>>>

\* the "mov" arm
FromStrMov(tokens) ==
    LET t1 == NextToken(tokens, 1)
        to == Register_from_str(t1[1])
        t2 == NextToken(tokens, 2)
        from_token == t2[1]
        register == Register_from_str(from_token)
        imm == u8_from_str(from_token)
        from_label == LabelString_from_str(from_token)
    IN  IF t1 = <<>> THEN <<"Err", <<"MovMissingTo">>>>
        ELSE IF to[1] = "Err" THEN <<"Err", <<"MovInvalidToRegister", to[2]>>>>
        ELSE IF t2 = <<>> THEN <<"Err", <<"MovMissingFrom">>>>
        ELSE IF register[1] = "Ok" THEN <<"Ok", <<"Op", <<"MovReg", to[2], register[2]>>>>>>
        ELSE IF imm[1] = "Ok" THEN <<"Ok", <<"Op", <<"MovImm", to[2], imm[2]>>>>>>
        ELSE IF from_label[1] = "Ok"
             THEN <<"Ok", <<"Op", <<"MovAddr", to[2], from_label[2]>>>>>>
        ELSE <<"Err", <<"MovInvalidFrom", from_label[2]>>>>

\* the "cmp_call" arm
FromStrCmpCall(tokens) ==
    LET t1 == NextToken(tokens, 1)
        component == t1[1]
        imm == u8_from_str(component)
        component_label == LabelString_from_str(component)
    IN  IF t1 = <<>> THEN <<"Err", <<"CmpCallMissingComponent">>>>
        ELSE IF imm[1] = "Ok" THEN <<"Ok", <<"Op", <<"CmpCallImm", imm[2]>>>>>>
        ELSE IF component_label[1] = "Ok"
             THEN <<"Ok", <<"Op", <<"CmpCallAddr", component_label[2]>>>>>>
        ELSE <<"Err", <<"MovInvalidFrom", component_label[2]>>>>

\* the catch-all arm: a label definition or an invalid instruction
FromStrOther(line) ==
    IF ends_with(line, ":")
    THEN LET label == LabelString_from_str("$" \o trim_end_matches(line, ":"))
         IN  IF label[1] = "Err" THEN <<"Err", <<"InvalidLabel", label[2]>>>>
             ELSE <<"Ok", <<"Label", label[2]>>>>
    ELSE <<"Err", <<"InvalidInstruction">>>>

\* AssemblyLine::from_str: <<"Ok", line node>> or <<"Err", AssemblyLineParseError>>
AssemblyLine_from_str(s) ==
    LET tokens == split_whitespace(s)
        first_token == to_lowercase(tokens[1])
    IN  IF tokens = <<>> THEN <<"Ok", <<"EmptyLine">>>>
        ELSE IF starts_with(tokens[1], "//") THEN <<"Ok", <<"EmptyLine">>>>
        ELSE IF first_token = "let" THEN FromStrLet(tokens)
        ELSE IF first_token = "jmp"
             THEN FromStrJmp(tokens, "Jmp", "JmpMissingArgument", "JmpInvalidArgument")
        ELSE IF first_token = "jmpc"
             THEN FromStrJmp(tokens, "JmpCondition", "JmpcMissingArgument",
                             "JmpcInvalidArgument")
        ELSE IF first_token = "mov" THEN FromStrMov(tokens)
        ELSE IF first_token = "cmp_call" THEN FromStrCmpCall(tokens)
        ELSE IF first_token \in DOMAIN NoOperandMnemonics
             THEN <<"Ok", <<"Op", <<NoOperandMnemonics[first_token]>>>>>>
        ELSE FromStrOther(first_token)

----------------------------------------------------------------------------
(* parse_code: one step per line of the text *)

\* the lines a source text is made of: two that classify, two that do not
SourceLines ==
    {"skip:", "  MOV %rga $x", "bogus", "let $5 = 1"}

\* CodeError with a one-based line number
CodeError_OneBased(line, error) == [line |-> line + 1, error |-> error]

CodeError(line, error) == [line |-> line, error |-> error]

InitParse ==
    /\ source = <<>>
    /\ lines = <<>>
    /\ errors = <<>>
    /\ ppc = "lines"
    /\ parsed = <<"None">>
    /\ pad = <<"Op", 0>>
    /\ code = <<>>
    /\ pc = "idle"
    /\ result = [kind |-> "None"]
    /\ bios_init = 0
    /\ data_init = 0
    /\ bios_memory = <<>>
    /\ data_memory = <<>>
    /\ label_locations = <<>>
    /\ memory_locations = <<>>
    /\ need_labels = <<>>
    /\ need_memory_labels = <<>>
    /\ cur_offset = 0
    /\ cur_data_offset = 0
    /\ pending = {}
    /\ arg = <<>>
    /\ ret = <<"None">>
    /\ active = 1
    /\ other = <<>>

\* one iteration of `for (line_num, line) in code.lines().enumerate()`
ParseLine ==
    /\ ppc = "lines"
    /\ Len(source) < MaxSourceLines
    /\ \E line \in SourceLines :
        LET line_num == Len(source)
            r == AssemblyLine_from_str(line)
        IN  /\ source' = Append(source, line)
            /\ IF r[1] = "Ok"
               THEN lines' = Append(lines, r[2]) /\ UNCHANGED errors
               ELSE errors' = Append(errors, CodeError(line_num, r[2])) /\ UNCHANGED lines
    /\ UNCHANGED <<ppc, parsed>>
    /\ UNCHANGED <<asmVars, callVars, pairVars>>

\* the text has no more lines: Ok(lines) or Err(errors)
ParseReturn ==
    /\ ppc = "lines"
    /\ ppc' = "done"
    /\ parsed' = IF Len(errors) = 0 THEN <<"Ok", lines>> ELSE <<"Err", errors>>
    /\ UNCHANGED <<source, lines, errors>>
    /\ UNCHANGED <<asmVars, callVars, pairVars>>

NextParse == ParseLine \/ ParseReturn

SpecParse == InitParse /\ [][NextParse]_vars

----------------------------------------------------------------------------
(* Inputs of assemble: the line list, revealed one line per iteration *)

Names == {"a", "b"}
Values == {7, 9}
\* <<byte filling bios_memory, byte filling data_memory>> before the call
InitImages == {<<0, 0>>, <<170, 85>>}

Digit(d) == SubSeq("0123456789", d + 1, d + 1)

\* the name of the k-th filler declaration: p000, p001, ...
PadName(k) ==
    "p" \o Digit((k \div 100) % 10) \o Digit((k \div 10) % 10) \o Digit(k % 10)

\* the k-th filler line: `let $p<k> = 7` or `noop`
PadLine(kind, k) ==
    IF kind = "MemoryDeclaration"
    THEN <<"MemoryDeclaration", PadName(k), 7>>
    ELSE <<"Op", <<"Noop">>>>

\* programs of instructions: no filler, or enough Noop lines to bring the
\* instruction cursor within MaxGap bytes of the end of bios_memory
Pads ==
    {<<"Op", 0>>} \cup {<<"Op", n>> : n \in (BIOS_MEM_SIZE - MaxGap)..BIOS_MEM_SIZE}

\* programs of declarations: enough `let` lines to bring the data cursor
\* within MaxDataGap bytes of the end of data_memory
DataPads ==
    {<<"MemoryDeclaration", n>> : n \in (DATA_MEM_SIZE - MaxDataGap)..DATA_MEM_SIZE}

\* two concurrent calls: each assembles a short program without filler
PairPads == {<<"Pair", 0>>}

\* programs whose instruction image is inspected byte by byte: no filler, or
\* MaxFrameFill Noop lines so that the last instructions end near offset 255
FramePads == {<<"Frame", 0>>, <<"Frame", MaxFrameFill>>}

TailBound(kind) ==
    IF kind = "MemoryDeclaration" THEN MaxDataTail
    ELSE IF kind = "Pair" THEN MaxPairLines - Len(other[2])
    ELSE IF kind = "Frame" THEN MaxFrameTail
    ELSE MaxTail

TailOps ==
    {<<"Noop">>, <<"MovImm", "RGC", 9>>, <<"JmpCondition", "a">>}
    \cup {<<"Jmp", n>> : n \in Names}
    \cup {<<"MovAddr", "RGB", n>> : n \in Names}
    \cup {<<"CmpCallAddr", "a">>}

TailLines ==
    {<<"EmptyLine">>}
    \cup {<<"Label", n>> : n \in Names}
    \cup {<<"MemoryDeclaration", n, v>> : n \in Names, v \in Values}
    \cup {<<"Op", o>> : o \in TailOps}

\* the lines of the programs of two concurrent calls: the same names in both
PairLines ==
    {<<"EmptyLine">>, <<"Label", "a">>, <<"MemoryDeclaration", "a", 7>>,
     <<"Op", <<"Jmp", "a">>>>, <<"Op", <<"MovAddr", "RGB", "a">>>>}

\* the lines of the programs whose instruction image is inspected:
\* instructions of one, two and three bytes, with and without a label operand
FrameLines ==
    {<<"EmptyLine">>, <<"Label", "a">>, <<"MemoryDeclaration", "a", 7>>,
     <<"Op", <<"Noop">>>>, <<"Op", <<"Jmp", "a">>>>,
     <<"Op", <<"MovImm", "RGC", 9>>>>, <<"Op", <<"MovAddr", "RGB", "a">>>>}

\* the lines the slice `code` may hold at index Len(code)
NextLines ==
    IF Len(code) < pad[2] THEN {PadLine(pad[1], Len(code))}
    ELSE IF Len(code) < pad[2] + TailBound(pad[1])
         THEN (IF pad[1] = "Pair" THEN PairLines
               ELSE IF pad[1] = "Frame" THEN FrameLines
               ELSE TailLines)
    ELSE {}

Filled(size, byte) == [i \in 0..(size - 1) |-> byte]

InitWith(pads) ==
    /\ pad \in pads
    /\ code = <<>>
    /\ pc = "pass1"
    /\ result = Running
    /\ \E im \in InitImages : bios_init = im[1] /\ data_init = im[2]
    /\ bios_memory = Filled(BIOS_MEM_SIZE, bios_init)
    /\ data_memory = Filled(DATA_MEM_SIZE, data_init)
    /\ label_locations = <<>>
    /\ memory_locations = <<>>
    /\ need_labels = <<>>
    /\ need_memory_labels = <<>>
    /\ cur_offset = 0
    /\ cur_data_offset = 0
    /\ pending = {}
    /\ source = <<>>
    /\ lines = <<>>
    /\ errors = <<>>
    /\ ppc = "idle"
    /\ parsed = <<"None">>
    /\ arg = <<>>
    /\ ret = <<"None">>
    /\ active = 1

Init == InitWith(Pads \cup DataPads) /\ other = <<>>

----------------------------------------------------------------------------
(* Pass 1: one action per AssemblyLine variant *)

\* a return that records the value and lets the loop go on
Return_Continue(r) == pc' = pc /\ result' = r

\* return r: assemble is left with the value r
Return(r) == pc' = "done" /\ result' = r

\* EmptyLine => {}
AsmEmptyLine ==
    /\ pc = "pass1"
    /\ \E line \in NextLines :
        /\ line[1] = "EmptyLine"
        /\ code' = Append(code, line)
    /\ UNCHANGED <<pad, pc, result, bios_init, data_init, bios_memory, data_memory,
                   label_locations, memory_locations, need_labels,
                   need_memory_labels, cur_offset, cur_data_offset, pending>>
    /\ UNCHANGED <<parseVars, callVars, pairVars>>

\* Label { name } => duplicate check, then insert (cur_line_num, cur_offset)
AsmLabel ==
    /\ pc = "pass1"
    /\ \E line \in NextLines :
        /\ line[1] = "Label"
        /\ code' = Append(code, line)
        /\ LET name == line[2]
               cur_line_num == Len(code)
               found == HashMapGet(label_locations, name)
           IN  IF found # None
               THEN /\ Return(DuplicateLabel(name, found[1][1], cur_line_num))
                    /\ UNCHANGED label_locations
               ELSE /\ label_locations' =
                          HashMapInsert(label_locations, name, <<cur_line_num, cur_offset>>)
                    /\ UNCHANGED <<pc, result>>
    /\ UNCHANGED <<pad, bios_init, data_init, bios_memory, data_memory,
                   memory_locations, need_labels, need_memory_labels,
                   cur_offset, cur_data_offset, pending>>
    /\ UNCHANGED <<parseVars, callVars, pairVars>>

\* u8::checked_add that wraps instead of returning None
checked_add_Wrapping(a, b) == <<(a + b) % (U8_MAX + 1)>>

\* u8::checked_add: Some(a + b), or None when the sum exceeds u8::MAX
checked_add(a, b) == IF a + b > U8_MAX THEN None ELSE <<a + b>>

\* the outcomes of `cur_data_offset += 1`: the u8 sum, or on overflow the
\* wrapped value (overflow checks off) or a panic (overflow checks on)
IncrementOutcomes(c) ==
    IF c + 1 <= U8_MAX THEN {<<"Ok", c + 1>>}
    ELSE {<<"Ok", (c + 1) % (U8_MAX + 1)>>, <<"Panic">>}

\* MemoryDeclaration { label, value } => duplicate check, insert, advance the data cursor
AsmMemoryDeclaration ==
    /\ pc = "pass1"
    /\ \E line \in NextLines :
        /\ line[1] = "MemoryDeclaration"
        /\ code' = Append(code, line)
        /\ LET label == line[2]
               value == line[3]
               cur_line_num == Len(code)
               found == HashMapGet(memory_locations, label)
           IN  IF found # None
               THEN /\ Return(DuplicateMemory(label, found[1][1], cur_line_num))
                    /\ UNCHANGED <<memory_locations, cur_data_offset>>
               ELSE /\ memory_locations' =
                          HashMapInsert(memory_locations, label,
                                        <<cur_line_num, cur_data_offset, value>>)
                    /\ \E inc \in IncrementOutcomes(cur_data_offset) :
                          IF inc[1] = "Ok"
                          THEN cur_data_offset' = inc[2] /\ UNCHANGED <<pc, result>>
                          ELSE Return(Panic) /\ UNCHANGED cur_data_offset
    /\ UNCHANGED <<pad, bios_init, data_init, bios_memory, data_memory,
                   label_locations, need_labels, need_memory_labels,
                   cur_offset, pending>>
    /\ UNCHANGED <<parseVars, callVars, pairVars>>

\* Op(opcode) => encode at the cursor, patch or record the label operand, advance
AsmOp ==
    /\ pc = "pass1"
    /\ \E line \in NextLines :
        /\ line[1] = "Op"
        /\ code' = Append(code, line)
        /\ LET ph == placeholder_labels(line[2])
               placeholder == ph[1]
               label_info == ph[2]
               r == read(placeholder, BIOS_MEM_SIZE - cur_offset)
           IN  IF r[1] = "Err"
               THEN /\ Return(MemoryOverflow)
                    /\ UNCHANGED <<bios_memory, need_labels, need_memory_labels, cur_offset>>
               ELSE
               LET written == WriteBytes(bios_memory, cur_offset, r[2])
                   bytes_written == Len(r[2])
                   label_sum == checked_add(cur_offset, label_info[2])
                   label_offset == label_sum[1]
                   label_name == label_info[3]
                   advance ==
                       LET sum == checked_add(cur_offset, bytes_written)
                       IN  IF sum = None
                           THEN Return(PointerOverflow) /\ UNCHANGED cur_offset
                           ELSE /\ cur_offset' = sum[1]
                                /\ UNCHANGED <<pc, result>>
               IN  IF label_info = None
                   THEN /\ bios_memory' = written
                        /\ UNCHANGED <<need_labels, need_memory_labels>>
                        /\ advance
                   ELSE IF label_sum = None
                   THEN \* cur_offset.checked_add(arg_offset).unwrap()
                        /\ bios_memory' = written
                        /\ Return(Panic)
                        /\ UNCHANGED <<need_labels, need_memory_labels, cur_offset>>
                   ELSE IF label_info[1]
                   THEN /\ IF label_name \in DOMAIN label_locations
                           THEN /\ bios_memory' =
                                      [written EXCEPT ![label_offset] =
                                          label_locations[label_name][2]]
                                /\ UNCHANGED need_labels
                           ELSE /\ bios_memory' = written
                                /\ need_labels' =
                                      PushNeedLabel(need_labels, label_name, label_offset)
                        /\ UNCHANGED need_memory_labels
                        /\ advance
                   ELSE /\ IF label_name \in DOMAIN memory_locations
                           THEN /\ bios_memory' =
                                      [written EXCEPT ![label_offset] =
                                          memory_locations[label_name][2]]
                                /\ UNCHANGED need_memory_labels
                           ELSE /\ bios_memory' = written
                                /\ need_memory_labels' =
                                      PushNeedMemoryLabel(need_memory_labels,
                                                          label_name, label_offset)
                        /\ UNCHANGED need_labels
                        /\ advance
    /\ UNCHANGED <<pad, bios_init, data_init, data_memory, label_locations,
                   memory_locations, cur_data_offset, pending>>
    /\ UNCHANGED <<parseVars, callVars, pairVars>>

\* the `for` over code ends: start iterating need_labels
PassOneDone ==
    /\ pc = "pass1"
    /\ Len(code) >= pad[2]
    /\ pc' = "need_labels"
    /\ pending' = DOMAIN need_labels
    /\ UNCHANGED <<pad, code, result, bios_init, data_init, bios_memory, data_memory,
                   label_locations, memory_locations, need_labels,
                   need_memory_labels, cur_offset, cur_data_offset>>
    /\ UNCHANGED <<parseVars, callVars, pairVars>>

----------------------------------------------------------------------------
(* Pass 2: the fixup maps are HashMaps, iterated in an arbitrary order *)

\* PatchAll that stops after the first offset of the list
PatchAll_FirstOnly(mem, offsets, byte) ==
    [i \in DOMAIN mem |-> IF offsets # <<>> /\ offsets[1] = i THEN byte ELSE mem[i]]

\* for offset in offsets { mem[offset] = byte }
PatchAll(mem, offsets, byte) ==
    [i \in DOMAIN mem |->
        IF \E k \in 1..Len(offsets) : offsets[k] = i THEN byte ELSE mem[i]]

\* one (label_name, offsets) entry of need_labels: patch bios_memory or fail
ResolveLabel ==
    /\ pc = "need_labels"
    /\ \E label_name \in pending :
        LET offsets == need_labels[label_name]
        IN  /\ pending' = pending \ {label_name}
            /\ IF offsets = <<>>
               THEN UNCHANGED <<pc, result, bios_memory>>
               ELSE IF label_name \in DOMAIN label_locations
               THEN /\ bios_memory' =
                          PatchAll(bios_memory, offsets, label_locations[label_name][2])
                    /\ UNCHANGED <<pc, result>>
               ELSE /\ Return(InvalidLabel)
                    /\ UNCHANGED bios_memory
    /\ UNCHANGED <<pad, code, bios_init, data_init, data_memory, label_locations,
                   memory_locations, need_labels, need_memory_labels,
                   cur_offset, cur_data_offset>>
    /\ UNCHANGED <<parseVars, callVars, pairVars>>

\* the `for` over need_labels ends: start iterating need_memory_labels
LabelsDone ==
    /\ pc = "need_labels"
    /\ pending = {}
    /\ pc' = "need_memory_labels"
    /\ pending' = DOMAIN need_memory_labels
    /\ UNCHANGED <<pad, code, result, bios_init, data_init, bios_memory, data_memory,
                   label_locations, memory_locations, need_labels,
                   need_memory_labels, cur_offset, cur_data_offset>>
    /\ UNCHANGED <<parseVars, callVars, pairVars>>

\* one (label_name, offsets) entry of need_memory_labels: the address is
\* stored in data_memory at the recorded offsets
ResolveMemoryLabel ==
    /\ pc = "need_memory_labels"
    /\ \E label_name \in pending :
        LET offsets == need_memory_labels[label_name]
        IN  /\ pending' = pending \ {label_name}
            /\ IF offsets = <<>>
               THEN UNCHANGED <<pc, result, data_memory>>
               ELSE IF label_name \in DOMAIN memory_locations
               THEN /\ data_memory' =
                          PatchAll(data_memory, offsets, memory_locations[label_name][2])
                    /\ UNCHANGED <<pc, result>>
               ELSE /\ Return(InvalidMemoryLabel)
                    /\ UNCHANGED data_memory
    /\ UNCHANGED <<pad, code, bios_init, data_init, bios_memory, label_locations,
                   memory_locations, need_labels, need_memory_labels,
                   cur_offset, cur_data_offset>>
    /\ UNCHANGED <<parseVars, callVars, pairVars>>

\* The images the wipe and the fill over memory_locations (a HashMap, so in
\* an arbitrary order) can leave: 0 where no entry points, the entry's value
\* where one does, and where several entries share an address the value of
\* the entry visited last.
FinalDataImages(locs) ==
    LET vals == {locs[n][3] : n \in DOMAIN locs}
        addrs_of == [v \in vals |-> {locs[n][2] : n \in {m \in DOMAIN locs : locs[m][3] = v}}]
                    @@ <<>>
        values_at(a) == {v \in vals : a \in addrs_of[v]}
        shared == {a \in 0..(DATA_MEM_SIZE - 1) : Cardinality(values_at(a)) > 1}
        last == {f \in [shared -> vals] : \A a \in shared : f[a] \in values_at(a)}
    IN  {[a \in 0..(DATA_MEM_SIZE - 1) |->
            IF a \in shared THEN f[a]
            ELSE IF values_at(a) = {} THEN 0
            ELSE CHOOSE v \in values_at(a) : TRUE] : f \in last}

\* the `for` over need_memory_labels ends: wipe data memory, fill in the
\* declared values, return Ok(())
Finalize ==
    /\ pc = "need_memory_labels"
    /\ pending = {}
    /\ data_memory' \in FinalDataImages(memory_locations)
    /\ Return(Ok)
    /\ UNCHANGED <<pad, code, bios_init, data_init, bios_memory, label_locations,
                   memory_locations, need_labels, need_memory_labels,
                   cur_offset, cur_data_offset, pending>>
    /\ UNCHANGED <<parseVars, callVars, pairVars>>

Next ==
    \/ AsmEmptyLine
    \/ AsmLabel
    \/ AsmMemoryDeclaration
    \/ AsmOp
    \/ PassOneDone
    \/ ResolveLabel
    \/ LabelsDone
    \/ ResolveMemoryLabel
    \/ Finalize

Spec == Init /\ [][Next]_vars

\* assemble called on the programs whose instruction image is inspected
InitFrame == InitWith(FramePads) /\ other = <<>>

SpecFrame == InitFrame /\ [][Next]_vars

----------------------------------------------------------------------------
(* Two concurrent calls of assemble.  Every variable of assemble is a      *)
(* local of the call or an exclusive borrow of the caller's images, so the *)
(* scheduler that interleaves the two calls saves the running call's       *)
(* variables in `other` and resumes the variables saved before.            *)

\* a scheduler under which label_locations is one map shared by the calls
Switch_SharedLabels ==
    /\ other # <<>>
    /\ active' = 3 - active
    /\ other' = asmVars
    /\ pad' = other[1]
    /\ code' = other[2]
    /\ pc' = other[3]
    /\ result' = other[4]
    /\ bios_init' = other[5]
    /\ data_init' = other[6]
    /\ bios_memory' = other[7]
    /\ data_memory' = other[8]
    /\ UNCHANGED label_locations
    /\ memory_locations' = other[10]
    /\ need_labels' = other[11]
    /\ need_memory_labels' = other[12]
    /\ cur_offset' = other[13]
    /\ cur_data_offset' = other[14]
    /\ pending' = other[15]
    /\ UNCHANGED <<parseVars, callVars>>

\* the running call is suspended and the other call resumed
Switch ==
    /\ other # <<>>
    /\ active' = 3 - active
    /\ other' = asmVars
    /\ pad' = other[1]
    /\ code' = other[2]
    /\ pc' = other[3]
    /\ result' = other[4]
    /\ bios_init' = other[5]
    /\ data_init' = other[6]
    /\ bios_memory' = other[7]
    /\ data_memory' = other[8]
    /\ label_locations' = other[9]
    /\ memory_locations' = other[10]
    /\ need_labels' = other[11]
    /\ need_memory_labels' = other[12]
    /\ cur_offset' = other[13]
    /\ cur_data_offset' = other[14]
    /\ pending' = other[15]
    /\ UNCHANGED <<parseVars, callVars>>

\* both calls at their entry, each with its own line list and images (the
\* call that runs first has the images of the smaller fill byte; the other
\* assignment is reached by a Switch in the first step)
InitPair ==
    /\ InitWith(PairPads)
    /\ \E p \in PairPads : \E im \in {i \in InitImages : i[1] > bios_init} :
           other = <<p, <<>>, "pass1", Running, im[1], im[2],
                     Filled(BIOS_MEM_SIZE, im[1]), Filled(DATA_MEM_SIZE, im[2]),
                     <<>>, <<>>, <<>>, <<>>, 0, 0, {}>>

NextPair == Next \/ Switch

SpecPair == InitPair /\ [][NextPair]_vars

----------------------------------------------------------------------------
(* assemble run alone and to its end on a whole line list: its locals as a *)
(* record, pass 1 as a fold over the lines, the fixup loops in one step    *)

AloneInit(bios_fill) ==
    [result |-> Running, bios |-> Filled(BIOS_MEM_SIZE, bios_fill),
     labels |-> <<>>, mems |-> <<>>, need |-> <<>>, needm |-> <<>>,
     cur |-> 0, dcur |-> 0]

\* the states one iteration of the `for` over the lines can leave
AloneLine(st, line, cur_line_num) ==
    IF st.result # Running THEN {st}
    ELSE IF line[1] = "EmptyLine" THEN {st}
    ELSE IF line[1] = "Label" THEN
        IF line[2] \in DOMAIN st.labels
        THEN {[st EXCEPT !.result =
                  DuplicateLabel(line[2], st.labels[line[2]][1], cur_line_num)]}
        ELSE {[st EXCEPT !.labels = HashMapInsert(@, line[2], <<cur_line_num, st.cur>>)]}
    ELSE IF line[1] = "MemoryDeclaration" THEN
        IF line[2] \in DOMAIN st.mems
        THEN {[st EXCEPT !.result =
                  DuplicateMemory(line[2], st.mems[line[2]][1], cur_line_num)]}
        ELSE LET inserted ==
                     [st EXCEPT !.mems =
                         HashMapInsert(@, line[2], <<cur_line_num, st.dcur, line[3]>>)]
             IN  {IF inc[1] = "Ok" THEN [inserted EXCEPT !.dcur = inc[2]]
                  ELSE [inserted EXCEPT !.result = Panic] :
                      inc \in IncrementOutcomes(st.dcur)}
    ELSE
        LET ph == placeholder_labels(line[2])
            label_info == ph[2]
            r == read(ph[1], BIOS_MEM_SIZE - st.cur)
        IN  IF r[1] = "Err" THEN {[st EXCEPT !.result = MemoryOverflow]}
            ELSE
            LET written == [st EXCEPT !.bios = WriteBytes(@, st.cur, r[2])]
                label_sum == checked_add(st.cur, label_info[2])
                at == label_sum[1]
                name == label_info[3]
                fixed ==
                    IF label_info = None THEN written
                    ELSE IF label_info[1]
                    THEN IF name \in DOMAIN st.labels
                         THEN [written EXCEPT !.bios[at] = st.labels[name][2]]
                         ELSE [written EXCEPT !.need = PushNeedLabel(@, name, at)]
                    ELSE IF name \in DOMAIN st.mems
                         THEN [written EXCEPT !.bios[at] = st.mems[name][2]]
                         ELSE [written EXCEPT !.needm = PushNeedMemoryLabel(@, name, at)]
                sum == checked_add(st.cur, Len(r[2]))
            IN  IF label_info # None /\ label_sum = None
                THEN {[written EXCEPT !.result = Panic]}
                ELSE IF sum = None THEN {[fixed EXCEPT !.result = PointerOverflow]}
                ELSE {[fixed EXCEPT !.cur = sum[1]]}

\* the states after the first k lines of c
RECURSIVE AlonePassOne(_, _, _)
AlonePassOne(c, k, bios_fill) ==
    IF k = 0 THEN {AloneInit(bios_fill)}
    ELSE UNION {AloneLine(st, c[k], k - 1) : st \in AlonePassOne(c, k - 1, bios_fill)}

\* what assemble returns from the state pass 1 left: the error, or Ok with
\* the two images
AloneReturn(st) ==
    LET unresolved(need, locs) ==
            \E n \in DOMAIN need : need[n] # <<>> /\ n \notin DOMAIN locs
        patched ==
            [i \in DOMAIN st.bios |->
                IF \E n \in DOMAIN st.need : \E k \in DOMAIN st.need[n] : st.need[n][k] = i
                THEN st.labels[CHOOSE n \in DOMAIN st.need :
                                  \E k \in DOMAIN st.need[n] : st.need[n][k] = i][2]
                ELSE st.bios[i]]
    IN  IF st.result # Running THEN {<<st.result>>}
        ELSE IF unresolved(st.need, st.labels) THEN {<<InvalidLabel>>}
        ELSE IF unresolved(st.needm, st.mems) THEN {<<InvalidMemoryLabel>>}
        ELSE {<<Ok, patched, d>> : d \in FinalDataImages(st.mems)}

\* the results assemble can return for the line list c and images filled
\* with bios_fill (the data image is overwritten whole on success)
AssembleAlone(c, bios_fill) ==
    UNION {AloneReturn(st) : st \in AlonePassOne(c, Len(c), bios_fill)}

----------------------------------------------------------------------------
(* The validator, the classifier and the encoder, each called on its own *)

\* the characters label bodies and operand tokens are made of
BodyChars == {"$", "@", "2", "5", "r", "g", "a", "G"}

\* the strings of at most n characters of chars
RECURSIVE StringsOver(_, _)
StringsOver(chars, n) ==
    IF n = 0 THEN {""}
    ELSE LET shorter == StringsOver(chars, n - 1)
         IN  shorter \cup {s \o c : s \in shorter, c \in chars}

\* label bodies: every short string, the register names, signed and large numbers
Bodies ==
    StringsOver(BodyChars, MaxBodyLen)
    \cup {"rgb", "rgc", "rgd", "ret", "mem", "MEM", "Ret", "+5", "-5", "256", "x_1"}

\* operand tokens: a body alone or behind a label or register sigil
Tokens == {p \o b : p \in {"", "$", "@", "%"}, b \in Bodies} \ {""}

\* `mov` lines with a valid destination register and every token as source
MovLines == {m \o t : m \in {"mov %rgb ", " MOV\t%Ret  "}, t \in Tokens}

\* leading tokens of the other lines
Words ==
    StringsOver(BodyChars, MaxWordLen)
    \cup {"skip", "Loop", "x", "rga", "%rga", "noop", "ADD", "let", "mov", "jmp",
          "cmp_call", "//", "//c"}

\* what follows the leading token
LineTails == {"", ":", "::", ": noop", " y:", " :", ":y", ":  "}

OtherLines == {w \o t : w \in Words, t \in LineTails}

\* operands of the instructions handed to the encoder
Immediates == {0, 9, 255}

\* OpCode<LabelString>: the 24 kinds and their operands
AllOps ==
    {<<NoOperandMnemonics[m]>> : m \in DOMAIN NoOperandMnemonics}
    \cup {<<k, n>> : k \in {"Jmp", "JmpCondition", "CmpCallAddr"}, n \in Names}
    \cup {<<"CmpCallImm", v>> : v \in Immediates}
    \cup {<<"MovReg", to, from>> : to \in Register, from \in Register}
    \cup {<<"MovImm", to, v>> : to \in Register, v \in Immediates}
    \cup {<<"MovAddr", to, n>> : to \in Register, n \in Names}

CallInputs ==
    {<<"sigils", b>> : b \in Bodies}
    \cup {<<"LabelString::from_str", t>> : t \in Tokens}
    \cup {<<"AssemblyLine::from_str", l>> : l \in MovLines \cup OtherLines}
    \cup {<<"read", op>> : op \in AllOps}

InitCalls ==
    /\ arg \in CallInputs
    /\ ret = <<"None">>
    /\ active = 1
    /\ other = <<>>
    /\ source = <<>>
    /\ lines = <<>>
    /\ errors = <<>>
    /\ ppc = "idle"
    /\ parsed = <<"None">>
    /\ pad = <<"Op", 0>>
    /\ code = <<>>
    /\ pc = "idle"
    /\ result = [kind |-> "None"]
    /\ bios_init = 0
    /\ data_init = 0
    /\ bios_memory = <<>>
    /\ data_memory = <<>>
    /\ label_locations = <<>>
    /\ memory_locations = <<>>
    /\ need_labels = <<>>
    /\ need_memory_labels = <<>>
    /\ cur_offset = 0
    /\ cur_data_offset = 0
    /\ pending = {}

\* LabelString::from_str on one body behind each of the two sigils
CallSigils ==
    /\ arg[1] = "sigils"
    /\ ret = <<"None">>
    /\ ret' = <<LabelString_from_str("$" \o arg[2]), LabelString_from_str("@" \o arg[2])>>
    /\ UNCHANGED <<arg, asmVars, parseVars, pairVars>>

\* LabelString::from_str on one token
CallLabelString ==
    /\ arg[1] = "LabelString::from_str"
    /\ ret = <<"None">>
    /\ ret' = LabelString_from_str(arg[2])
    /\ UNCHANGED <<arg, asmVars, parseVars, pairVars>>

\* AssemblyLine::from_str on one line
CallFromStr ==
    /\ arg[1] = "AssemblyLine::from_str"
    /\ ret = <<"None">>
    /\ ret' = AssemblyLine_from_str(arg[2])
    /\ UNCHANGED <<arg, asmVars, parseVars, pairVars>>

\* placeholder_labels, then read into a buffer of BIOS_MEM_SIZE bytes:
\* <<the fixup record or None, the bytes written>>
CallEncode ==
    /\ arg[1] = "read"
    /\ ret = <<"None">>
    /\ LET ph == placeholder_labels(arg[2])
       IN  ret' = <<ph[2], read(ph[1], BIOS_MEM_SIZE)>>
    /\ UNCHANGED <<arg, asmVars, parseVars, pairVars>>

NextCalls == CallSigils \/ CallLabelString \/ CallFromStr \/ CallEncode

SpecCalls == InitCalls /\ [][NextCalls]_vars

----------------------------------------------------------------------------
TypeOK ==
    /\ pc \in {"pass1", "need_labels", "need_memory_labels", "done"}
    /\ cur_offset \in 0..U8_MAX
    /\ cur_data_offset \in 0..U8_MAX
    /\ \A i \in DOMAIN bios_memory : bios_memory[i] \in 0..U8_MAX

----------------------------------------------------------------------------
(* Vocabulary of the properties *)

IsJump(line) == line[1] = "Op" /\ line[2][1] \in {"Jmp", "JmpCondition"}
IsDataRef(line) == line[1] = "Op" /\ line[2][1] \in {"MovAddr", "CmpCallAddr"}

\* the label operand is the last operand of the four label-carrying kinds
LabelOperand(line) == line[2][Len(line[2])]
\* position of the label operand byte inside the encoded instruction
LabelOperandAt(line) == Len(line[2]) - 1

\* encoded length of an instruction: the opcode byte and one byte per operand
EncodedLength(op) == Len(op)

\* instruction bytes emitted by the lines c[1] .. c[i-1]
\* (the sum of the lengths, each length counted as the number of n in
\* 1..OP_BUF_LEN it reaches)
InstrBytesBefore(c, i) ==
    LET ops == {k \in 1..(i - 1) : c[k][1] = "Op"}
        atLeast(n) == Cardinality({k \in ops : EncodedLength(c[k][2]) >= n})
    IN  atLeast(1) + atLeast(2) + atLeast(3)

DefinedLabels == {code[i][2] : i \in {k \in DOMAIN code : code[k][1] = "Label"}}
DeclaredData == {code[i][2] : i \in {k \in DOMAIN code : code[k][1] = "MemoryDeclaration"}}

Pass1Failures ==
    {"DuplicateLabel", "DuplicateMemory", "MemoryOverflow", "PointerOverflow", "Panic"}
AssemblingErrors ==
    {"DuplicateLabel", "DuplicateMemory", "MemoryOverflow", "PointerOverflow",
     "InvalidLabel", "InvalidMemoryLabel"}

\* the function f was called on its own and has returned
Called(f) == arg # <<>> /\ arg[1] = f /\ ret # <<"None">>

RegisterNames == {"rga", "rgb", "rgc", "rgd", "ret", "mem"}

IsUpper(c) == \E k \in 1..Len(UpperCase) : CharAt(UpperCase, k) = c

\* the line without its leading and trailing whitespace
RECURSIVE Trimmed(_)
Trimmed(s) ==
    IF s = "" THEN s
    ELSE IF IsWhitespace(CharAt(s, 1)) THEN Trimmed(SubSeq(s, 2, Len(s)))
    ELSE IF IsWhitespace(CharAt(s, Len(s))) THEN Trimmed(SubSeq(s, 1, Len(s) - 1))
    ELSE s

\* the leading tokens the classifier knows: mnemonics, `let`, a comment
Recognized(token) ==
    \/ to_lowercase(token) \in DOMAIN NoOperandMnemonics
    \/ to_lowercase(token) \in {"let", "jmp", "jmpc", "mov", "cmp_call"}
    \/ starts_with(token, "//")

----------------------------------------------------------------------------
(* C1: when assemble succeeds, the operand byte of every jmp/jmpc (one     *)
(* past the instruction start) holds the address recorded for its label,   *)
(* for backward and forward references and any number of references.      *)
C1_JumpOperandsResolved ==
    result.kind = "Ok" =>
        \A i \in DOMAIN code :
            IsJump(code[i]) =>
                /\ LabelOperand(code[i]) \in DOMAIN label_locations
                /\ bios_memory[InstrBytesBefore(code, i) + 1]
                       = label_locations[LabelOperand(code[i])][2]

\* success with a forward and a backward jump to one label at a non-zero address
C1_Witness ==
    /\ result.kind = "Ok"
    /\ \E i, j, k \in DOMAIN code :
        /\ i < j /\ j < k
        /\ IsJump(code[i]) /\ IsJump(code[k])
        /\ code[j][1] = "Label"
        /\ LabelOperand(code[i]) = code[j][2]
        /\ LabelOperand(code[k]) = code[j][2]
        /\ label_locations[code[j][2]][2] > 0

(* C2: when assemble succeeds, the label operand byte of every MovAddr and *)
(* CmpCallAddr whose label is declared holds the data offset assigned to   *)
(* the label (not its value), wherever the declaration stands.             *)
C2_DataOperandsResolved ==
    result.kind = "Ok" =>
        \A i \in DOMAIN code :
            (IsDataRef(code[i]) /\ LabelOperand(code[i]) \in DOMAIN memory_locations)
            => bios_memory[InstrBytesBefore(code, i) + LabelOperandAt(code[i])]
                   = memory_locations[LabelOperand(code[i])][2]

(* C3: once pass 1 has finished without error, a jmp/jmpc to a name that   *)
(* no line defines makes assemble return InvalidLabel: the loop over       *)
(* need_labels is never left normally and no other value is returned.      *)
C3_UndefinedJumpFails ==
    (\E i \in DOMAIN code : IsJump(code[i]) /\ LabelOperand(code[i]) \notin DefinedLabels)
    => /\ pc # "need_memory_labels"
       /\ pc = "done" => result.kind \in Pass1Failures \cup {"InvalidLabel"}

\* InvalidLabel returned for a program that also holds a defined label
C3_Witness ==
    /\ result.kind = "InvalidLabel"
    /\ \E i \in DOMAIN code : IsJump(code[i]) /\ LabelOperand(code[i]) \notin DefinedLabels
    /\ DefinedLabels # {}

(* C4: once pass 1 and the program-label fixups have finished without     *)
(* error, a MovAddr/CmpCallAddr naming a label that no `let` declares      *)
(* makes assemble return InvalidMemoryLabel, for one or more references.   *)
C4_UndeclaredDataFails ==
    (\E i \in DOMAIN code : IsDataRef(code[i]) /\ LabelOperand(code[i]) \notin DeclaredData)
    => (pc = "done" =>
           result.kind \in Pass1Failures \cup {"InvalidLabel", "InvalidMemoryLabel"})

(* C5: two label definitions of one name at lines i < j, with no fatal     *)
(* error before line j, make assemble return DuplicateLabel with that      *)
(* name, first_defined = i and redefined = j (zero-based).  `code` holds   *)
(* the lines iterated so far, so line j is reached without an earlier      *)
(* fatal error exactly when it is the last element of `code`.              *)
C5_DuplicateLabel ==
    LET j == Len(code)
    IN  \A i \in 1..(j - 1) :
            (code[i][1] = "Label" /\ code[j][1] = "Label" /\ code[i][2] = code[j][2])
            => result = [kind |-> "DuplicateLabel", name |-> code[j][2],
                         first_defined |-> i - 1, redefined |-> j - 1]

\* a duplicate label reported with another line between the two definitions
C5_Witness ==
    /\ result.kind = "DuplicateLabel"
    /\ result.redefined >= result.first_defined + 2
    /\ result.first_defined >= 1

(* C6: two declarations of one data label at lines i < j, with no fatal    *)
(* error before line j (so that line j is the last element of `code`),     *)
(* make assemble return DuplicateMemory with that name, first_defined = i  *)
(* and redefined = j, and the data cursor stays where the declarations     *)
(* before line j left it.                                                  *)
C6_DuplicateMemory ==
    LET j == Len(code)
    IN  \A i \in 1..(j - 1) :
            (/\ code[i][1] = "MemoryDeclaration" /\ code[j][1] = "MemoryDeclaration"
             /\ code[i][2] = code[j][2])
            => /\ result = [kind |-> "DuplicateMemory", name |-> code[j][2],
                            first_defined |-> i - 1, redefined |-> j - 1]
               /\ cur_data_offset =
                      Cardinality({k \in 1..(j - 1) : code[k][1] = "MemoryDeclaration"})
                          % (U8_MAX + 1)

\* a duplicate declaration with a different initial value, reported after line 0
C6_Witness ==
    /\ result.kind = "DuplicateMemory"
    /\ result.first_defined >= 1
    /\ code[result.first_defined + 1][3] # code[result.redefined + 1][3]

(* C7: when assemble succeeds, data_memory holds each declared label's     *)
(* initial value at the label's offset and 0 at every other offset.        *)
C7_DataImage ==
    result.kind = "Ok" =>
        /\ \A n \in DOMAIN memory_locations :
               data_memory[memory_locations[n][2]] = memory_locations[n][3]
        /\ \A a \in DOMAIN data_memory :
               (\A n \in DOMAIN memory_locations : memory_locations[n][2] # a)
               => data_memory[a] = 0

(* C8: when assemble returns an AssemblingError, both images hold the      *)
(* bytes they held before the call.                                        *)
C8_NoPartialImage ==
    result.kind \in AssemblingErrors =>
        /\ bios_memory = Filled(BIOS_MEM_SIZE, bios_init)
        /\ data_memory = Filled(DATA_MEM_SIZE, data_init)

(* C10: encoding returns MemoryOverflow only when fewer bytes remain in    *)
(* bios_memory past the cursor than the instruction's encoded length.      *)
C10_OverflowOnlyWhenTooLong ==
    result.kind = "MemoryOverflow" =>
        BIOS_MEM_SIZE - cur_offset < EncodedLength(code[Len(code)][2])

(* C9: parse_code returns Ok with one node per source line, in order, iff  *)
(* every line classifies; otherwise Err with exactly one entry per failing *)
(* line and none for a valid line, in ascending order, each carrying the   *)
(* zero-based index of its line and that line's error.                     *)
C9_WholeFileOrNothing ==
    ppc = "done" =>
        LET class == [i \in DOMAIN source |-> AssemblyLine_from_str(source[i])]
            bad == {i \in DOMAIN source : class[i][1] = "Err"}
        IN  /\ parsed[1] \in {"Ok", "Err"}
            /\ parsed[1] = "Ok" <=> bad = {}
            /\ parsed[1] = "Ok" =>
                   /\ Len(parsed[2]) = Len(source)
                   /\ \A i \in DOMAIN source : parsed[2][i] = class[i][2]
            /\ parsed[1] = "Err" =>
                   /\ Len(parsed[2]) = Cardinality(bad)
                   /\ \A k \in DOMAIN parsed[2] :
                          /\ parsed[2][k].line + 1 \in bad
                          /\ parsed[2][k].error = class[parsed[2][k].line + 1][2]
                          /\ k > 1 => parsed[2][k - 1].line < parsed[2][k].line

\* six lines, malformed at the zero-based positions 2 and 5 only
C9_Witness ==
    /\ ppc = "done"
    /\ Len(source) = 6
    /\ parsed[1] = "Err"
    /\ Len(parsed[2]) = 2
    /\ parsed[2][1].line = 2
    /\ parsed[2][2].line = 5

(* C11: the instruction cursor never wraps.  When the bytes emitted by the *)
(* lines before the last one plus the length of the instruction just       *)
(* encoded exceed 255, assemble has returned PointerOverflow; and while no *)
(* error has been returned the cursor is in 0..255 and every byte of       *)
(* bios_memory at or past the cursor still holds the byte it held before   *)
(* the call, so that every offset written so far lies below the cursor.    *)
C11_CursorNeverWraps ==
    LET j == Len(code)
        emitted == InstrBytesBefore(code, j + 1)
    IN  /\ (/\ j >= 1
             /\ code[j][1] = "Op"
             /\ result.kind # "MemoryOverflow"
             /\ emitted > U8_MAX)
            => result.kind = "PointerOverflow"
        /\ result.kind \in {"None", "Ok"} =>
               /\ cur_offset \in 0..U8_MAX
               /\ cur_offset = emitted
               /\ \A i \in cur_offset..(BIOS_MEM_SIZE - 1) : bios_memory[i] = bios_init

\* a three-byte instruction encoded at 253: the sum 256 does not fit the cursor
C11_Witness ==
    /\ result.kind = "PointerOverflow"
    /\ cur_offset = BIOS_MEM_SIZE - OP_BUF_LEN
    /\ bios_memory[U8_MAX] # bios_init

(* C12: the data cursor never wraps silently.  assemble never aborts on    *)
(* the increment of the cursor, and while no error has been returned the   *)
(* cursor equals the number of declarations made (it is never reduced      *)
(* modulo 256) and the declared labels have pairwise distinct offsets.     *)
C12_DataCursorNeverWraps ==
    /\ result.kind # "Panic"
    /\ result.kind \in {"None", "Ok"} =>
           /\ cur_data_offset = Cardinality(DOMAIN memory_locations)
           /\ Cardinality({memory_locations[n][2] : n \in DOMAIN memory_locations})
                  = Cardinality(DOMAIN memory_locations)

(* C13: the label validator treats `$` and `@` alike: for every body b,    *)
(* "$" + b and "@" + b are both rejected with the same LabelParseError or  *)
(* both accepted with the same label; "$5"/"@5" are rejected as            *)
(* NumericName and "$rga"/"@rga" as RegisterName.                          *)
C13_SigilsAlike ==
    Called("sigils") =>
        /\ ret[1] = ret[2]
        /\ arg[2] = "5" => ret[1] = <<"Err", "NumericName">>
        /\ arg[2] = "rga" => ret[1] = <<"Err", "RegisterName">>

(* C14: a label the validator accepts came from a token that begins with   *)
(* `$` or `@`; the accepted body has no upper-case letter, does not parse  *)
(* as a u8 and is none of rga, rgb, rgc, rgd, ret, mem, and neither is the *)
(* token's text after its sigil, compared case-insensitively; a token      *)
(* without a sigil is rejected with InvalidPrefix.                         *)
C14_AcceptedLabels ==
    Called("LabelString::from_str") =>
        LET token == arg[2]
            rest == to_lowercase(SubSeq(token, 2, Len(token)))
            sigil == starts_with(token, "$") \/ starts_with(token, "@")
        IN  /\ ret[1] = "Ok" =>
                /\ sigil
                /\ \A k \in 1..Len(ret[2]) : ~IsUpper(CharAt(ret[2], k))
                /\ u8_from_str(ret[2])[1] = "Err"
                /\ ret[2] \notin RegisterNames
                /\ u8_from_str(rest)[1] = "Err"
                /\ rest \notin RegisterNames
            /\ ~sigil => ret = <<"Err", "InvalidPrefix">>

\* a token with an upper-case letter accepted under its lower-cased body
C14_Witness ==
    /\ Called("LabelString::from_str")
    /\ ret = <<"Ok", "rg">>
    /\ arg[2] = "@rG"

(* C15: a fatal assembling error carries the data that identifies its      *)
(* cause: DuplicateLabel and DuplicateMemory carry the name and both line  *)
(* numbers, InvalidLabel and InvalidMemoryLabel carry the name of a label  *)
(* that is referenced and not defined.                                     *)
C15_ErrorsCarryData ==
    /\ result.kind \in {"DuplicateLabel", "DuplicateMemory"} =>
           /\ {"name", "first_defined", "redefined"} \subseteq DOMAIN result
           /\ code[result.first_defined + 1][2] = result.name
           /\ code[result.redefined + 1][2] = result.name
    /\ result.kind = "InvalidLabel" =>
           /\ "name" \in DOMAIN result
           /\ result.name \in DOMAIN need_labels \ DefinedLabels
    /\ result.kind = "InvalidMemoryLabel" =>
           /\ "name" \in DOMAIN result
           /\ result.name \in DOMAIN need_memory_labels \ DeclaredData

(* C17: the layout after an error-free prefix `code` of the line list.     *)
(* The instruction cursor is the sum of the encoded lengths of the         *)
(* instruction lines and the data cursor the number of `let` lines (so     *)
(* empty lines and label definitions advance neither); a program label is  *)
(* recorded with its line and the instruction bytes emitted before it; the *)
(* data labels have the offsets 0, 1, 2, ... in declaration order.         *)
C17_PassOneLayout ==
    (pc = "pass1" /\ result.kind = "None") =>
        /\ cur_offset = InstrBytesBefore(code, Len(code) + 1)
        /\ cur_data_offset = Cardinality(DOMAIN memory_locations)
        /\ Cardinality(DOMAIN memory_locations)
               = Cardinality({k \in DOMAIN code : code[k][1] = "MemoryDeclaration"})
        /\ \A n \in DOMAIN label_locations :
               LET k == label_locations[n][1] + 1
               IN  /\ code[k] = <<"Label", n>>
                   /\ label_locations[n][2] = InstrBytesBefore(code, k)
        /\ \A n \in DOMAIN memory_locations :
               LET k == memory_locations[n][1] + 1
               IN  /\ code[k][1] = "MemoryDeclaration" /\ code[k][2] = n
                   /\ memory_locations[n][2] =
                          Cardinality({m \in DOMAIN memory_locations :
                                          memory_locations[m][1] < memory_locations[n][1]})

(* C18: for each of the 24 instruction kinds the encoder emits the kind's  *)
(* opcode byte (the kinds in the order below have the bytes 0..23, hence   *)
(* pairwise distinct ones) and then its operand bytes in order: a register *)
(* as its id RGA=0 .. MEM=5, an immediate verbatim, a label as 0; the      *)
(* length is 1 + the number of operands.  A label operand comes with the   *)
(* fixup record <<program?, offset, name>>: program for jmp and jmpc, data *)
(* for mov and cmp_call, the offset being the position of the placeholder  *)
(* byte (1 for jmp, jmpc and cmp_call, 2 for mov); no other kind has one.  *)
C18_Encoding ==
    Called("read") =>
        LET op == arg[2]
            kind == op[1]
            KindOrder ==
                <<"Add", "Sub", "Mul", "Div", "Jmp", "JmpCondition", "MovReg", "MovImm",
                  "MovAddr", "StackGet", "StackSet", "Exec", "Return", "CmpCallAddr",
                  "CmpCallImm", "Forward", "Rotate", "Break", "Battery", "InventoryGet",
                  "InventoryDrop", "InventoryItem", "Output", "Noop">>
            opcode == (CHOOSE k \in 1..Len(KindOrder) : KindOrder[k] = kind) - 1
            RegisterId == [RGA |-> 0, RGB |-> 1, RGC |-> 2, RGD |-> 3, RET |-> 4, MEM |-> 5]
            operands ==
                CASE kind = "MovReg" -> <<RegisterId[op[2]], RegisterId[op[3]]>>
                  [] kind = "MovImm" -> <<RegisterId[op[2]], op[3]>>
                  [] kind = "MovAddr" -> <<RegisterId[op[2]], 0>>
                  [] kind \in {"Jmp", "JmpCondition", "CmpCallAddr"} -> <<0>>
                  [] kind = "CmpCallImm" -> <<op[2]>>
                  [] OTHER -> <<>>
            fixup ==
                CASE kind \in {"Jmp", "JmpCondition"} -> <<TRUE, 1, op[2]>>
                  [] kind = "CmpCallAddr" -> <<FALSE, 1, op[2]>>
                  [] kind = "MovAddr" -> <<FALSE, 2, op[3]>>
                  [] OTHER -> <<>>
        IN  /\ Len(KindOrder) = 24
            /\ ret[2] = <<"Ok", <<opcode>> \o operands>>
            /\ Len(ret[2][2]) = Len(op)
            /\ ret[1] = fixup
            /\ fixup # <<>> => op[fixup[2] + 1] = fixup[3] /\ ret[2][2][fixup[2] + 1] = 0

\* `mov %mem $b`: opcode 8, register id 5, placeholder 0 at offset 2, a data fixup
C18_Witness ==
    /\ Called("read")
    /\ arg[2] = <<"MovAddr", "MEM", "b">>
    /\ ret = << <<FALSE, 2, "b">>, <<"Ok", <<8, 5, 0>>>> >>

(* C19: a `mov` line with a valid destination register classifies its      *)
(* source token in this order: a register name gives MovReg; else a u8     *)
(* literal gives MovImm; else a valid label gives MovAddr; else the line   *)
(* fails with MovInvalidFrom wrapping the label validator's error.         *)
C19_MovSourceOrder ==
    Called("AssemblyLine::from_str") =>
        LET tokens == split_whitespace(arg[2])
        IN  (/\ Len(tokens) >= 3
             /\ to_lowercase(tokens[1]) = "mov"
             /\ Register_from_str(tokens[2])[1] = "Ok")
            => LET to == Register_from_str(tokens[2])[2]
                   token == tokens[3]
                   register == Register_from_str(token)
                   imm == u8_from_str(token)
                   label == LabelString_from_str(token)
               IN  /\ register[1] = "Ok" =>
                          ret = <<"Ok", <<"Op", <<"MovReg", to, register[2]>>>>>>
                   /\ (register[1] = "Err" /\ imm[1] = "Ok") =>
                          ret = <<"Ok", <<"Op", <<"MovImm", to, imm[2]>>>>>>
                   /\ (register[1] = "Err" /\ imm[1] = "Err" /\ label[1] = "Ok") =>
                          ret = <<"Ok", <<"Op", <<"MovAddr", to, label[2]>>>>>>
                   /\ (register[1] = "Err" /\ imm[1] = "Err" /\ label[1] = "Err") =>
                          ret = <<"Err", <<"MovInvalidFrom", label[2]>>>>

\* `$5` is no register and no u8 literal, and the validator rejects it
C19_Witness ==
    /\ Called("AssemblyLine::from_str")
    /\ arg[2] = "mov %rgb $5"
    /\ ret = <<"Err", <<"MovInvalidFrom", "NumericName">>>>

(* C20: a line that ends in `:` and whose leading token is not recognized  *)
(* is a label definition exactly when its text without the trailing `:`    *)
(* is a valid label body (no u8 literal, no register name): the node is    *)
(* Label with that body lower-cased, else the error is InvalidLabel; any   *)
(* other line with an unrecognized leading token fails with                *)
(* InvalidInstruction.                                                     *)
C20_LabelDefinitionLines ==
    Called("AssemblyLine::from_str") =>
        LET tokens == split_whitespace(arg[2])
            text == Trimmed(arg[2])
            body == to_lowercase(SubSeq(text, 1, Len(text) - 1))
        IN  (tokens # <<>> /\ ~Recognized(tokens[1])) =>
                IF ends_with(text, ":")
                THEN IF u8_from_str(body)[1] = "Err" /\ body \notin RegisterNames
                     THEN ret = <<"Ok", <<"Label", body>>>>
                     ELSE ret[1] = "Err" /\ ret[2][1] = "InvalidLabel"
                ELSE ret = <<"Err", <<"InvalidInstruction">>>>

\* what a finished call returned: the error, or Ok with the two images
Returned(res, bios, data) == IF res = Ok THEN <<res, bios, data>> ELSE <<res>>

(* C16: two calls of assemble whose steps are interleaved in any way, each *)
(* with its own line list and images, do not interfere: what each call     *)
(* returns (the error, or the two images) is a result of running that call *)
(* alone on its line list and images.                                      *)
C16_NoInterference ==
    other # <<>> =>
        /\ pc = "done" =>
               Returned(result, bios_memory, data_memory) \in AssembleAlone(code, bios_init)
        /\ other[3] = "done" =>
               Returned(other[4], other[7], other[8]) \in AssembleAlone(other[2], other[5])

\* a call has returned Ok while the other call is suspended inside pass 1,
\* both programs having defined the label `a`
C16_Witness ==
    /\ other # <<>>
    /\ pc = "done"
    /\ result = Ok
    /\ "a" \in DOMAIN label_locations
    /\ other[3] = "pass1"
    /\ "a" \in DOMAIN other[9]

(* C21: the program labels and the data labels are two namespaces.  A      *)
(* duplicate error names two lines of the same sort (two label definitions *)
(* or two declarations, never one of each); a jmp/jmpc whose name no       *)
(* label definition defines and a mov/cmp_call whose name no `let`         *)
(* declares is reported as unresolved when pass 1 raises no error, also    *)
(* when the other table holds that name.                                   *)
C21_SeparateNamespaces ==
    /\ result.kind = "DuplicateLabel" =>
           /\ code[result.first_defined + 1] = <<"Label", result.name>>
           /\ code[result.redefined + 1] = <<"Label", result.name>>
    /\ result.kind = "DuplicateMemory" =>
           /\ code[result.first_defined + 1][1] = "MemoryDeclaration"
           /\ code[result.redefined + 1][1] = "MemoryDeclaration"
    /\ (pc = "done" /\ \E i \in DOMAIN code :
            /\ IsJump(code[i])
            /\ LabelOperand(code[i]) \in DeclaredData \ DefinedLabels)
       => result.kind \in Pass1Failures \cup {"InvalidLabel"}
    /\ (pc = "done" /\ \E i \in DOMAIN code :
            /\ IsDataRef(code[i])
            /\ LabelOperand(code[i]) \in DefinedLabels \ DeclaredData)
       => result.kind \in Pass1Failures \cup {"InvalidLabel", "InvalidMemoryLabel"}

\* the four errors a line of pass 1 can raise
PassOneErrors == {"DuplicateLabel", "DuplicateMemory", "MemoryOverflow", "PointerOverflow"}

\* no line of `code` has raised a pass-1 error: the label definitions have
\* pairwise distinct names, so have the declarations, and the cursor has
\* moved over every instruction (a line that raises leaves it in place)
PassOneClean ==
    /\ Cardinality(DefinedLabels) = Cardinality({k \in DOMAIN code : code[k][1] = "Label"})
    /\ Cardinality(DeclaredData) =
           Cardinality({k \in DOMAIN code : code[k][1] = "MemoryDeclaration"})
    /\ cur_offset = InstrBytesBefore(code, Len(code) + 1)

(* C22: fatal errors are reported in a fixed order.  A pass-1 error is     *)
(* returned by the step that takes the raising line, every line before it  *)
(* having raised none and pass 2 not having begun; once assemble has       *)
(* returned, no later line is taken and nothing is written.  InvalidLabel  *)
(* is returned only from the first loop of pass 2, after a pass 1 without  *)
(* error, and InvalidMemoryLabel only from the second loop, when moreover  *)
(* every jump of the program names a defined label.                        *)
C22_FixedErrorOrder ==
    [][/\ result.kind # "None" => UNCHANGED asmVars
       /\ (result.kind = "None" /\ result'.kind \in PassOneErrors) =>
              /\ pc = "pass1"
              /\ PassOneClean
              /\ Len(code') = Len(code) + 1
              /\ result'.kind = "DuplicateLabel" =>
                     code'[Len(code')] = <<"Label", result'.name>> /\ result'.name \in DefinedLabels
              /\ result'.kind = "DuplicateMemory" =>
                     /\ code'[Len(code')][1] = "MemoryDeclaration"
                     /\ code'[Len(code')][2] = result'.name
                     /\ result'.name \in DeclaredData
              /\ result'.kind \in {"MemoryOverflow", "PointerOverflow"} =>
                     code'[Len(code')][1] = "Op"
       /\ (result.kind = "None" /\ result'.kind = "InvalidLabel") =>
              /\ pc = "need_labels"
              /\ code' = code
              /\ PassOneClean
       /\ (result.kind = "None" /\ result'.kind = "InvalidMemoryLabel") =>
              /\ pc = "need_memory_labels"
              /\ code' = code
              /\ PassOneClean
              /\ \A i \in DOMAIN code :
                     IsJump(code[i]) => LabelOperand(code[i]) \in DefinedLabels
      ]_vars

\* an undefined jump target and an undeclared data label referenced twice in
\* one program: both loops of pass 2 would fail, the first one reports
C22_Witness ==
    /\ result.kind = "InvalidLabel"
    /\ \E n \in DOMAIN need_memory_labels :
           need_memory_labels[n] # <<>> /\ n \notin DOMAIN memory_locations

(* C23: the outcome of assemble does not depend on the order in which the  *)
(* maps are iterated.  The fill of data_memory visits memory_locations in  *)
(* an arbitrary order and the entry visited last determines a byte, so the *)
(* final data image is the same for every order exactly when the entries   *)
(* that point at one address all carry one value; then a successful call   *)
(* leaves that value there.                                                *)
C23_OrderIndependent ==
    result.kind = "Ok" =>
        \A n \in DOMAIN memory_locations :
            /\ data_memory[memory_locations[n][2]] = memory_locations[n][3]
            /\ \A m \in DOMAIN memory_locations :
                   memory_locations[m][2] = memory_locations[n][2]
                   => memory_locations[m][3] = memory_locations[n][3]

(* C24: assemble never aborts while it handles an instruction line.  The   *)
(* step that takes an Op line starts from a cursor in 0..255 and does not  *)
(* panic; unless the encoder refuses the line (MemoryOverflow), the bytes  *)
(* it copies lie inside bios_memory and, for a label-carrying instruction, *)
(* cursor + relative operand offset is at most 255; and every offset       *)
(* recorded for pass 2 is an index of the image.                           *)
C24_NoAbortOnInstruction ==
    [][(Len(code') = Len(code) + 1 /\ code'[Len(code')][1] = "Op") =>
          LET line == code'[Len(code')]
          IN  /\ cur_offset \in 0..U8_MAX
              /\ result'.kind # "Panic"
              /\ result'.kind # "MemoryOverflow" =>
                     /\ cur_offset + EncodedLength(line[2]) <= BIOS_MEM_SIZE
                     /\ (IsJump(line) \/ IsDataRef(line)) =>
                            cur_offset + LabelOperandAt(line) <= U8_MAX
              /\ \A n \in DOMAIN need_labels' : \A k \in DOMAIN need_labels'[n] :
                     need_labels'[n][k] \in 0..(BIOS_MEM_SIZE - 1)
              /\ \A n \in DOMAIN need_memory_labels' :
                     \A k \in DOMAIN need_memory_labels'[n] :
                         need_memory_labels'[n][k] \in 0..(BIOS_MEM_SIZE - 1)
      ]_vars

\* `mov %rgb $a` handled at cursor 253 with $a declared: the operand byte is
\* patched at 253 + 2 = 255, the last index of the image
C24_Witness ==
    /\ Len(code) >= 1
    /\ IsDataRef(code[Len(code)])
    /\ EncodedLength(code[Len(code)][2]) = OP_BUF_LEN
    /\ cur_offset = BIOS_MEM_SIZE - OP_BUF_LEN
    /\ result.kind = "PointerOverflow"
    /\ LabelOperand(code[Len(code)]) \in DOMAIN memory_locations

\* The instructions of code[k..] lie end to end from offset `at` up to the
\* cursor, each holding its opcode byte and its register and immediate
\* operand bytes (a label operand byte holds whatever address was patched).
RECURSIVE EmittedFrom(_, _)
EmittedFrom(k, at) ==
    IF k > Len(code) THEN at = cur_offset
    ELSE IF code[k][1] # "Op" THEN EmittedFrom(k + 1, at)
    ELSE LET op == code[k][2]
             len == EncodedLength(op)
             labelled == IsJump(code[k]) \/ IsDataRef(code[k])
         IN  /\ at + len <= cur_offset
             /\ \A i \in 0..(len - 1) :
                    \/ labelled /\ i = LabelOperandAt(code[k])
                    \/ bios_memory[at + i] = OpBytes(op)[1][i + 1]
             /\ EmittedFrom(k + 1, at + len)

(* C25: assemble writes bios_memory only inside emitted instructions.  On  *)
(* success every byte at or past the final cursor holds the byte it held   *)
(* before the call (the instruction image is not cleared), and the bytes   *)
(* below the cursor are exactly the instructions of the program laid end   *)
(* to end in source order, so that each byte is the opcode byte or an      *)
(* operand byte of exactly one instruction.                                *)
C25_InstructionFrame ==
    result.kind = "Ok" =>
        /\ \A i \in cur_offset..(BIOS_MEM_SIZE - 1) : bios_memory[i] = bios_init
        /\ EmittedFrom(1, 0)

\* a forward jump, a three-byte instruction and the label: five bytes
\* emitted, the jump operand patched in pass 2, over an image that was not blank
C25_Witness ==
    /\ result.kind = "Ok"
    /\ bios_init # 0
    /\ cur_offset = 5
    /\ need_labels # <<>>
    /\ bios_memory[0] = OP_JMP
    /\ bios_memory[1] = cur_offset

====
